---- MODULE Spec2Model ----
(***************************************************************************)
(* Model of src/utils.ts: scaled BigNumber arithmetic (mulBN, divBN),      *)
(* per-position valuation (getEarnings, getROI) and the leaderboard        *)
(* pipeline getAllPositions -> getAggregatedPositions -> getTopTen.        *)
(*                                                                         *)
(* Number representations                                                  *)
(*  - A BigNumber is a sign and a magnitude; the magnitude is the decimal  *)
(*    digit string grouped into limbs of four digits, least significant    *)
(*    limb first, without leading zero limbs (zero is the empty sequence). *)
(*  - A JavaScript number holding an integer is a TLA+ integer.            *)
(*  - A price is kept in tenths of 1/scale (price "0.5" is 50000, price    *)
(*    "0.00015" is 15), so that Math.round(b * scale) has something to     *)
(*    round; the number read from it carries a nan flag.                   *)
(*  - roi is kept as the integer quotient a.mul(scale).div(b) that divBN   *)
(*    turns into a number; the roi value is that quotient / scale * 100.   *)
(*  - A call either returns [ok |-> TRUE, val |-> v] or throws             *)
(*    [ok |-> FALSE, err |-> fault].                                       *)
(***************************************************************************)
EXTENDS Integers, Sequences, FiniteSets, TLC

VARIABLES pc, data, allPositions, aggregatedPositions, topTen, thrown,
          earningsOut, roiOut

vars == <<pc, data, allPositions, aggregatedPositions, topTen, thrown,
          earningsOut, roiOut>>

----------------------------------------------------------------------------
(* BigNumber arithmetic of @ethersproject/bignumber, as utils.ts uses it.   *)

LimbBase == 10 ^ 4

Ok(v) == [ok |-> TRUE, val |-> v]
Throw(e) == [ok |-> FALSE, err |-> e]

RECURSIVE MagNorm(_)
MagNorm(m) ==
    IF m = <<>> THEN <<>>
    ELSE IF m[Len(m)] = 0 THEN MagNorm(SubSeq(m, 1, Len(m) - 1))
    ELSE m

RECURSIVE MagFromNat(_)
MagFromNat(n) ==
    IF n = 0 THEN <<>>
    ELSE <<n % LimbBase>> \o MagFromNat(n \div LimbBase)

RECURSIVE MagToNat(_)
MagToNat(m) ==
    IF m = <<>> THEN 0
    ELSE m[1] + LimbBase * MagToNat(Tail(m))

Limb(m, i) == IF i <= Len(m) THEN m[i] ELSE 0

\* -1, 0, 1 as m is below, equal to, above n
RECURSIVE MagCmpFrom(_, _, _)
MagCmpFrom(m, n, i) ==
    IF i = 0 THEN 0
    ELSE IF m[i] < n[i] THEN -1
    ELSE IF m[i] > n[i] THEN 1
    ELSE MagCmpFrom(m, n, i - 1)

MagCmp(m, n) ==
    IF Len(m) < Len(n) THEN -1
    ELSE IF Len(m) > Len(n) THEN 1
    ELSE MagCmpFrom(m, n, Len(m))

RECURSIVE MagAddFrom(_, _, _, _)
MagAddFrom(m, n, i, carry) ==
    IF i > Len(m) /\ i > Len(n)
    THEN (IF carry = 0 THEN <<>> ELSE <<carry>>)
    ELSE LET s == Limb(m, i) + Limb(n, i) + carry
         IN  <<s % LimbBase>> \o MagAddFrom(m, n, i + 1, s \div LimbBase)

MagAdd(m, n) == MagAddFrom(m, n, 1, 0)

\* m - n for m >= n
RECURSIVE MagSubFrom(_, _, _, _)
MagSubFrom(m, n, i, borrow) ==
    IF i > Len(m) THEN <<>>
    ELSE LET d == Limb(m, i) - Limb(n, i) - borrow
         IN  IF d < 0
             THEN <<d + LimbBase>> \o MagSubFrom(m, n, i + 1, 1)
             ELSE <<d>> \o MagSubFrom(m, n, i + 1, 0)

MagSub(m, n) == MagNorm(MagSubFrom(m, n, 1, 0))

\* m * d for a single limb d
RECURSIVE MagMulLimbFrom(_, _, _, _)
MagMulLimbFrom(m, d, i, carry) ==
    IF i > Len(m)
    THEN (IF carry = 0 THEN <<>> ELSE <<carry>>)
    ELSE LET p == m[i] * d + carry
         IN  <<p % LimbBase>> \o MagMulLimbFrom(m, d, i + 1, p \div LimbBase)

MagMulLimb(m, d) == IF d = 0 THEN <<>> ELSE MagMulLimbFrom(m, d, 1, 0)

RECURSIVE MagMul(_, _)
MagMul(m, n) ==
    IF n = <<>> \/ m = <<>> THEN <<>>
    ELSE LET rest == MagMul(m, Tail(n))
         IN  MagAdd(MagMulLimb(m, n[1]),
                    IF rest = <<>> THEN <<>> ELSE <<0>> \o rest)

\* the largest limb d in lo..hi with n * d <= r
RECURSIVE QuotLimb(_, _, _, _)
QuotLimb(r, n, lo, hi) ==
    IF lo = hi THEN lo
    ELSE LET mid == (lo + hi + 1) \div 2
         IN  IF MagCmp(MagMulLimb(n, mid), r) <= 0
             THEN QuotLimb(r, n, mid, hi)
             ELSE QuotLimb(r, n, lo, mid - 1)

\* long division of the limbs i..1 of m by n, rem the running remainder
RECURSIVE MagDivFrom(_, _, _, _)
MagDivFrom(m, n, i, rem) ==
    IF i = 0 THEN <<>>
    ELSE LET r == MagNorm(<<m[i]>> \o rem)
             d == QuotLimb(r, n, 0, LimbBase - 1)
         IN  MagDivFrom(m, n, i - 1, MagSub(r, MagMulLimb(n, d))) \o <<d>>

\* short division of the limbs i..1 of m by a divisor d small enough for
\* rem * LimbBase + limb to be computed directly
RECURSIVE MagDivShortFrom(_, _, _, _)
MagDivShortFrom(m, d, i, rem) ==
    IF i = 0 THEN <<>>
    ELSE LET r == rem * LimbBase + m[i]
         IN  MagDivShortFrom(m, d, i - 1, r % d) \o <<r \div d>>

\* floor(m / n) on magnitudes, n # 0
MagDiv(m, n) ==
    IF Len(n) <= 2 /\ Limb(n, 2) < 20
    THEN MagNorm(MagDivShortFrom(m, MagToNat(n), Len(m), 0))
    ELSE MagNorm(MagDivFrom(m, n, Len(m), <<>>))

BN(neg, mag) == [neg |-> neg /\ mag # <<>>, mag |-> mag]

\* BigNumber.from of an integer or of a decimal digit string
BigNumberFrom(n) == IF n < 0 THEN BN(TRUE, MagFromNat(-n)) ELSE BN(FALSE, MagFromNat(n))

BNisZero(a) == a.mag = <<>>

BNadd(a, b) ==
    IF a.neg = b.neg THEN BN(a.neg, MagAdd(a.mag, b.mag))
    ELSE IF MagCmp(a.mag, b.mag) >= 0 THEN BN(a.neg, MagSub(a.mag, b.mag))
    ELSE BN(b.neg, MagSub(b.mag, a.mag))

BNsub(a, b) == BNadd(a, BN(~b.neg, b.mag))

BNmul(a, b) == BN(a.neg # b.neg, MagMul(a.mag, b.mag))

\* BigNumber.div: throws on a zero divisor, otherwise BN.js div, which
\* divides the magnitudes and so truncates toward zero
BNdiv(a, b) ==
    IF BNisZero(b) THEN Throw("division-by-zero")
    ELSE Ok(BN(a.neg # b.neg, MagDiv(a.mag, b.mag)))

\* 2^53 = 2 * (2^13)^4 as a magnitude
SafeLimit ==
    LET p13 == MagFromNat(8192)
        p26 == MagMul(p13, p13)
    IN  MagMulLimb(MagMul(p26, p26), 2)

\* BigNumber.toNumber: BN.js refuses a value of more than 53 bits
BNtoNumber(a) ==
    IF MagCmp(a.mag, SafeLimit) >= 0 THEN Throw("overflow")
    ELSE Ok(IF a.neg THEN -MagToNat(a.mag) ELSE MagToNat(a.mag))

----------------------------------------------------------------------------
(* utils.ts                                                                 *)

scale == 10000

\* a price string "p / PriceDen"
PriceDen == 10 * scale

\* variant: a missing price read as 0 (Number(price || 0))
NumberOfPriceOrZero(prices, outcomeIndex) ==
    IF outcomeIndex + 1 \in DOMAIN prices
    THEN [nan |-> FALSE, v |-> prices[outcomeIndex + 1]]
    ELSE [nan |-> FALSE, v |-> 0]

\* Number(prices[outcomeIndex]): indexing past the array gives undefined,
\* and Number(undefined) is NaN
NumberOfPrice(prices, outcomeIndex) ==
    IF outcomeIndex + 1 \in DOMAIN prices
    THEN [nan |-> FALSE, v |-> prices[outcomeIndex + 1]]
    ELSE [nan |-> TRUE, v |-> 0]

\* Math.round(b * s) of a price b: the nearest integer, a half rounding up
MathRoundScaled(b, s) ==
    IF b.nan THEN b
    ELSE [nan |-> FALSE, v |-> (2 * b.v * s + PriceDen) \div (2 * PriceDen)]

\* a.mul(Math.round(b * scale)).div(scale); BigNumber.from(NaN) throws
mulBN(a, b) ==
    LET r == MathRoundScaled(b, scale)
    IN  IF r.nan THEN Throw("INVALID_ARGUMENT")
        ELSE BNdiv(BNmul(a, BigNumberFrom(r.v)), BigNumberFrom(scale))

\* a.mul(scale).div(b).toNumber() / scale; the value returned is the
\* integer quotient, standing for quotient / scale
divBN(a, b) ==
    LET q == BNdiv(BNmul(a, BigNumberFrom(scale)), b)
    IN  IF ~q.ok THEN q ELSE BNtoNumber(q.val)

\* netValue.add(valueSold).sub(valueBought), the value both getEarnings and
\* getROI compute before converting it
netEarnings(position) ==
    LET netValue == mulBN(position.netQuantity,
                          NumberOfPrice(position.market.outcomeTokenPrices,
                                        position.outcomeIndex))
    IN  IF ~netValue.ok THEN netValue
        ELSE Ok(BNsub(BNadd(netValue.val, position.valueSold),
                      position.valueBought))

getEarnings(position) ==
    LET e == netEarnings(position)
    IN  IF ~e.ok THEN e ELSE BNtoNumber(e.val)

\* divBN(netEarnings, valueBought) * 100; the value returned is the integer
\* quotient q, standing for the roi q / scale * 100
getROI(position) ==
    LET e == netEarnings(position)
    IN  IF ~e.ok THEN e ELSE divBN(e.val, position.valueBought)

\* Number(position.valueBought)
NumberOf(a) == IF a.neg THEN -MagToNat(a.mag) ELSE MagToNat(a.mag)

\* variant: a position whose valuation throws is skipped (try / catch
\* around the loop body)
RECURSIVE getAllPositionsSkipping(_, _, _)
getAllPositionsSkipping(d, i, acc) ==
    IF i > Len(d) THEN Ok(acc)
    ELSE LET position == d[i]
             earnings == getEarnings(position)
             roi == getROI(position)
         IN  IF ~earnings.ok \/ ~roi.ok
             THEN getAllPositionsSkipping(d, i + 1, acc)
             ELSE getAllPositionsSkipping(d, i + 1,
                      Append(acc, [user |-> position.user.id,
                                   earnings |-> earnings.val,
                                   invested |-> NumberOf(position.valueBought),
                                   roi |-> roi.val]))

\* data.forEach(...): the first exception ends the loop and the call
RECURSIVE getAllPositionsFrom(_, _, _)
getAllPositionsFrom(d, i, acc) ==
    IF i > Len(d) THEN Ok(acc)
    ELSE LET position == d[i]
             earnings == getEarnings(position)
             roi == getROI(position)
         IN  IF ~earnings.ok THEN earnings
             ELSE IF ~roi.ok THEN roi
             ELSE getAllPositionsFrom(d, i + 1,
                      Append(acc, [user |-> position.user.id,
                                   earnings |-> earnings.val,
                                   invested |-> NumberOf(position.valueBought),
                                   roi |-> roi.val]))

getAllPositions(d) == getAllPositionsFrom(d, 1, <<>>)

\* variant: one key per position, a user's key repeated
RECURSIVE groupKeysRepeated(_, _, _)
groupKeysRepeated(list, i, keys) ==
    IF i > Len(list) THEN keys
    ELSE groupKeysRepeated(list, i + 1, Append(keys, list[i].user))

\* the keys of _.groupBy(list, position => position.user), in the order
\* Object.values enumerates them: the order of first occurrence
RECURSIVE groupKeys(_, _, _)
groupKeys(list, i, keys) ==
    IF i > Len(list) THEN keys
    ELSE IF \E k \in DOMAIN keys : keys[k] = list[i].user
         THEN groupKeys(list, i + 1, keys)
         ELSE groupKeys(list, i + 1, Append(keys, list[i].user))

IsUser(u, position) == position.user = u

\* Object.values(_.groupBy(...)): one array per key, members in list order
groupBy(list) ==
    LET keys == groupKeys(list, 1, <<>>)
    IN  [k \in DOMAIN keys |->
            SelectSeq(list, LAMBDA position : IsUser(keys[k], position))]

\* variant: (t, { invested }) => invested, the last value instead of the sum
RECURSIVE reduceInvestedLast(_, _, _)
reduceInvestedLast(group, i, t) ==
    IF i > Len(group) THEN t
    ELSE reduceInvestedLast(group, i + 1, group[i].invested)

\* variant: the mean roi of the group instead of the sum
RECURSIVE reduceROIMean(_, _, _)
reduceROIMean(group, i, t) ==
    IF i > Len(group) THEN t \div Len(group)
    ELSE reduceROIMean(group, i + 1, t + group[i].roi)

\* group.reduce((t, x) => t + x.field, 0) for the three fields
RECURSIVE reduceInvested(_, _, _)
reduceInvested(group, i, t) ==
    IF i > Len(group) THEN t
    ELSE reduceInvested(group, i + 1, t + group[i].invested)

RECURSIVE reduceEarnings(_, _, _)
reduceEarnings(group, i, t) ==
    IF i > Len(group) THEN t
    ELSE reduceEarnings(group, i + 1, t + group[i].earnings)

RECURSIVE reduceROI(_, _, _)
reduceROI(group, i, t) ==
    IF i > Len(group) THEN t
    ELSE reduceROI(group, i + 1, t + group[i].roi)

aggregateGroup(position) ==
    [user |-> position[1].user,
     invested |-> reduceInvested(position, 1, 0),
     earnings |-> reduceEarnings(position, 1, 0),
     roi |-> reduceROI(position, 1, 0)]

getAggregatedPositions(list) ==
    LET positionsByUser == groupBy(list)
    IN  [k \in DOMAIN positionsByUser |-> aggregateGroup(positionsByUser[k])]

\* variant: the comparison turned round, an ascending order
comparatorAscending(a, b) == IF a.earnings < b.earnings THEN -1 ELSE 1

\* (a, b) => Number(a.earnings) > Number(b.earnings) ? -1 : 1
comparator(a, b) == IF a.earnings > b.earnings THEN -1 ELSE 1

\* Array.prototype.sort with this comparator. The comparator never answers
\* 0, so for two records of equal earnings it answers 1 whichever comes
\* first: it is not a consistent comparison function and ECMAScript leaves
\* the order to the engine. Two insertion sorts stand for the engines: one
\* asks comparator(pivot, element) and places the pivot before the first
\* element it precedes (V8's binary insertion), the other asks
\* comparator(element, pivot) and moves the pivot left past every element
\* that follows it (V8's earlier insertion sort).
RECURSIVE insertPivotFirst(_, _, _)
insertPivotFirst(sorted, pivot, i) ==
    IF i > Len(sorted) THEN Append(sorted, pivot)
    ELSE IF comparator(pivot, sorted[i]) < 0
         THEN SubSeq(sorted, 1, i - 1) \o <<pivot>> \o SubSeq(sorted, i, Len(sorted))
         ELSE insertPivotFirst(sorted, pivot, i + 1)

RECURSIVE insertPivotSecond(_, _, _)
insertPivotSecond(sorted, pivot, j) ==
    IF j = 0 THEN <<pivot>> \o sorted
    ELSE IF comparator(sorted[j], pivot) > 0
         THEN insertPivotSecond(sorted, pivot, j - 1)
         ELSE SubSeq(sorted, 1, j) \o <<pivot>> \o SubSeq(sorted, j + 1, Len(sorted))

RECURSIVE sortFrom(_, _, _, _)
sortFrom(list, i, sorted, engine) ==
    IF i > Len(list) THEN sorted
    ELSE sortFrom(list, i + 1,
                  IF engine = "pivotFirst"
                  THEN insertPivotFirst(sorted, list[i], 1)
                  ELSE insertPivotSecond(sorted, list[i], Len(sorted)),
                  engine)

Engines == {"pivotFirst", "pivotSecond"}

sort(list, engine) == sortFrom(list, 1, <<>>, engine)

TopN == 10

\* variant: slice(-10), the last ten
sliceTail(list) ==
    SubSeq(list, IF Len(list) < TopN THEN 1 ELSE Len(list) - TopN + 1, Len(list))

\* aggregatedPositions.slice(0, 10)
slice(list) == SubSeq(list, 1, IF Len(list) < TopN THEN Len(list) ELSE TopN)

----------------------------------------------------------------------------
(* Inputs.                                                                  *)

\* "0.0001", "0.5", "0.00015"
Prices == <<10, 50000, 15>>

Position(user, netQuantity, outcomeIndex, valueSold, valueBought) ==
    [netQuantity |-> netQuantity,
     valueSold |-> valueSold,
     valueBought |-> valueBought,
     outcomeIndex |-> outcomeIndex,
     market |-> [outcomeTokenPrices |-> Prices],
     user |-> [id |-> user]]

\* 10^20, a token amount of more than 53 bits
Huge == BNmul(BNmul(BigNumberFrom(10 ^ 8), BigNumberFrom(10 ^ 8)), BigNumberFrom(10 ^ 4))

\* positions for the valuation functions: signed quantities, every price,
\* an index past the prices, zero and non-zero amounts, amounts past 2^53
ValPositions ==
    { Position("A", q, i, s, b) :
        q \in {BigNumberFrom(-3), BigNumberFrom(0), BigNumberFrom(400),
               BigNumberFrom(1000000), Huge},
        i \in 0 .. Len(Prices),
        s \in {BigNumberFrom(0), BigNumberFrom(81), Huge},
        b \in {BigNumberFrom(0), BigNumberFrom(7), BigNumberFrom(30)} }

Users == {"A", "B", "C"}

\* earnings 100, 50, 200, -40
Earns100(u) == Position(u, BigNumberFrom(1000000), 0, BigNumberFrom(50), BigNumberFrom(50))
Earns50(u) == Position(u, BigNumberFrom(-3), 1, BigNumberFrom(81), BigNumberFrom(30))
Earns200(u) == Position(u, BigNumberFrom(400), 1, BigNumberFrom(7), BigNumberFrom(7))
Loses40(u) == Position(u, BigNumberFrom(10), 2, BigNumberFrom(0), BigNumberFrom(40))

ZeroBought == Position("A", BigNumberFrom(400), 1, BigNumberFrom(7), BigNumberFrom(0))
BadIndex == Position("B", BigNumberFrom(400), Len(Prices), BigNumberFrom(7), BigNumberFrom(7))
HugeQuantity == Position("C", Huge, 1, BigNumberFrom(7), BigNumberFrom(7))

PipelinePositions ==
    UNION { {Earns100(u), Earns50(u), Earns200(u), Loses40(u)} : u \in Users }
    \cup {ZeroBought, BadIndex, HugeQuantity}

MaxPositions == 3

SeqsUpTo(S, n) == UNION { [1 .. k -> S] : k \in 0 .. n }

\* datasets with more users than the leaderboard has places
MaxWide == 12

UserIds == <<"u01", "u02", "u03", "u04", "u05", "u06", "u07",
             "u08", "u09", "u10", "u11", "u12", "u13">>

WideChoices == 1 .. 2

\* the i-th position of a wide dataset: a new user earning 100, or else a
\* new user losing 40 (even i) or the previous user earning 50 (odd i)
WidePosition(i, c) ==
    IF c = 1 THEN Earns100(UserIds[i])
    ELSE IF i % 2 = 0 THEN Loses40(UserIds[i])
    ELSE Earns50(UserIds[IF i = 1 THEN 1 ELSE i - 1])

----------------------------------------------------------------------------
(* The pipeline as a state machine.                                         *)

NotCalled == Throw("not called")

NoBoard == [leaderBoardPositions |-> <<>>]

\* getAllPositions(data): returns the list or throws
GetAllPositions ==
    /\ pc = "getAllPositions"
    /\ LET r == getAllPositions(data)
       IN  IF r.ok
           THEN /\ allPositions' = r.val
                /\ pc' = "getAggregatedPositions"
                /\ thrown' = thrown
           ELSE /\ allPositions' = allPositions
                /\ pc' = "failed"
                /\ thrown' = r.err
    /\ UNCHANGED <<data, aggregatedPositions, topTen, earningsOut, roiOut>>

GetAggregatedPositions ==
    /\ pc = "getAggregatedPositions"
    /\ aggregatedPositions' = getAggregatedPositions(allPositions)
    /\ pc' = "getTopTen"
    /\ UNCHANGED <<data, allPositions, topTen, thrown, earningsOut, roiOut>>

\* getTopTen(aggregatedPositions): sorts its argument in place, then slices
GetTopTen ==
    /\ pc = "getTopTen"
    /\ \E engine \in Engines :
          /\ aggregatedPositions' = sort(aggregatedPositions, engine)
          /\ topTen' = [leaderBoardPositions |-> slice(aggregatedPositions')]
    /\ pc' = "done"
    /\ UNCHANGED <<data, allPositions, thrown, earningsOut, roiOut>>

Next == GetAllPositions \/ GetAggregatedPositions \/ GetTopTen

\* the exported valuation functions called on their own, on the last
\* position of the dataset
CallGetEarnings ==
    /\ data # <<>>
    /\ earningsOut = NotCalled
    /\ earningsOut' = getEarnings(data[Len(data)])
    /\ UNCHANGED <<pc, data, allPositions, aggregatedPositions, topTen,
                   thrown, roiOut>>

CallGetROI ==
    /\ data # <<>>
    /\ roiOut = NotCalled
    /\ roiOut' = getROI(data[Len(data)])
    /\ UNCHANGED <<pc, data, allPositions, aggregatedPositions, topTen,
                   thrown, earningsOut>>

NextVal ==
    \/ CallGetEarnings
    \/ CallGetROI
    \/ GetAllPositions
    \/ GetAggregatedPositions
    \/ GetTopTen

Start(entry, d) ==
    /\ pc = entry
    /\ data = d
    /\ allPositions = <<>>
    /\ aggregatedPositions = <<>>
    /\ topTen = NoBoard
    /\ thrown = ""
    /\ earningsOut = NotCalled
    /\ roiOut = NotCalled

Init == \E d \in SeqsUpTo(PipelinePositions, MaxPositions) : Start("getAllPositions", d)

InitWide ==
    \E k \in 0 .. MaxWide : \E cs \in [1 .. k -> WideChoices] :
        Start("getAllPositions", [i \in 1 .. k |-> WidePosition(i, cs[i])])

\* one position under valuation, alone or after a position that valuates
InitVal ==
    \E p \in ValPositions : \E before \in {<<>>, <<Earns100("B")>>} :
        Start("getAllPositions", before \o <<p>>)

Spec == Init /\ [][Next]_vars

SpecWide == InitWide /\ [][Next]_vars

SpecVal == InitVal /\ [][NextVal]_vars

----------------------------------------------------------------------------
(* Properties.                                                              *)

Range(f) == { f[i] : i \in DOMAIN f }

RECURSIVE SumOf(_, _)
SumOf(f, S) ==
    IF S = {} THEN 0
    ELSE LET i == CHOOSE j \in S : TRUE
         IN  f[i] + SumOf(f, S \ {i})

Board == topTen.leaderBoardPositions

InputUsers == { data[i].user.id : i \in DOMAIN data }

NonIncreasing(list) ==
    \A i, j \in DOMAIN list : i < j => list[i].earnings >= list[j].earnings

\* C1: when the pipeline completes, the leaderboard is ordered by earnings
\* non-increasing and has exactly min(10, distinct input users) entries; an
\* empty input gives an empty leaderboard.
C1_RankingCorrect ==
    pc = "done" =>
        /\ NonIncreasing(Board)
        /\ Len(Board) = (IF Cardinality(InputUsers) < 10
                         THEN Cardinality(InputUsers) ELSE 10)
        /\ (data = <<>> => Board = <<>>)

\* more than ten users, ranked, with a strict descent on the board
C1_Witness ==
    /\ pc = "done"
    /\ Cardinality(InputUsers) > 10
    /\ Len(Board) = 10
    /\ \E i \in DOMAIN Board : i > 1 /\ Board[i].earnings < Board[1].earnings

\* C2: getTopTen keeps the highest earners: with more than 10 aggregated
\* records, every record left out earns no more than every record on the
\* board; every board entry is one of the records passed in, none twice.
C2_TopTenSelectsHighest ==
    [][pc = "getTopTen" =>
        LET input == aggregatedPositions
            board == topTen'.leaderBoardPositions
        IN  /\ Len(input) > 10 =>
                \A r \in Range(input) \ Range(board) :
                    \A b \in Range(board) : r.earnings <= b.earnings
            /\ Range(board) \subseteq Range(input)
            /\ \A i, j \in DOMAIN board : i # j => board[i] # board[j]]_vars

\* ranked, more than ten records, and the eleventh earns strictly less
C2_Witness ==
    /\ pc = "done"
    /\ Len(aggregatedPositions) > 10
    /\ Len(Board) = 10
    /\ aggregatedPositions[11].earnings < Board[10].earnings

Aggregated == pc \in {"getTopTen", "done"}

PositionsOf(u) == { i \in DOMAIN allPositions : allPositions[i].user = u }

\* C3: getAggregatedPositions returns exactly one record per distinct user:
\* every input user is the user of an output record, no two output records
\* share a user, and no output user is absent from the input.
C3_OneRecordPerUser ==
    Aggregated =>
        /\ { allPositions[i].user : i \in DOMAIN allPositions }
             = { aggregatedPositions[k].user : k \in DOMAIN aggregatedPositions }
        /\ \A k, l \in DOMAIN aggregatedPositions :
              k # l => aggregatedPositions[k].user # aggregatedPositions[l].user

\* three positions of two users gave two records
C3_Witness ==
    /\ pc = "getTopTen"
    /\ Len(allPositions) = 3
    /\ Len(aggregatedPositions) = 2

C5_PlainSums ==
    /\ Aggregated =>
          \A k \in DOMAIN aggregatedPositions :
             LET mine == PositionsOf(aggregatedPositions[k].user)
             IN  /\ aggregatedPositions[k].earnings
                      = SumOf([i \in DOMAIN allPositions |-> allPositions[i].earnings], mine)
                 /\ aggregatedPositions[k].roi
                      = SumOf([i \in DOMAIN allPositions |-> allPositions[i].roi], mine)
    /\ (/\ pc = "done"
        /\ [i \in DOMAIN allPositions |->
               <<allPositions[i].user, allPositions[i].earnings>>]
             = <<(<<"A", 100>>), (<<"A", 50>>), (<<"B", 200>>)>>)
       => [i \in DOMAIN Board |-> <<Board[i].user, Board[i].earnings>>]
             = <<(<<"B", 200>>), (<<"A", 150>>)>>

\* the scenario, ranked
C5_Witness ==
    /\ pc = "done"
    /\ [i \in DOMAIN allPositions |->
           <<allPositions[i].user, allPositions[i].earnings>>]
         = <<(<<"A", 100>>), (<<"A", 50>>), (<<"B", 200>>)>>
    /\ Board[1].user = "B"
    /\ Board[2].roi = 36666

Last == data[Len(data)]

IndexInRange(p) == p.outcomeIndex + 1 \in DOMAIN p.market.outcomeTokenPrices

NothingReturned ==
    /\ pc \in {"getAllPositions", "failed"}
    /\ allPositions = <<>>
    /\ aggregatedPositions = <<>>
    /\ Board = <<>>

\* C6 as claimed: a position with valueBought zero makes its ROI fail with
\* a division-by-zero error, getAllPositions fail, and no list be returned.
C6_ZeroBoughtDivisionByZero ==
    \A i \in DOMAIN data :
        BNisZero(data[i].valueBought) =>
            /\ (i = Len(data) /\ roiOut # NotCalled)
                  => roiOut = Throw("division-by-zero")
            /\ NothingReturned
            /\ pc = "failed" => thrown # ""

\* C6 amended: a position with valueBought zero makes its ROI fail, with a
\* division-by-zero error when its outcomeIndex is within the prices and
\* with the error of the price lookup otherwise; getAllPositions fails and
\* no list, not even of the positions before it, is returned.
C6_ZeroBoughtFailsFast ==
    \A i \in DOMAIN data :
        BNisZero(data[i].valueBought) =>
            /\ (i = Len(data) /\ roiOut # NotCalled)
                  => /\ ~roiOut.ok
                     /\ roiOut.err = (IF IndexInRange(data[i])
                                      THEN "division-by-zero"
                                      ELSE "INVALID_ARGUMENT")
            /\ NothingReturned
            /\ pc = "failed" => thrown # ""

\* the zero investment is the second position; its ROI and the pipeline
\* failed with the division by zero
C6_Witness ==
    /\ pc = "failed"
    /\ Len(data) = 2
    /\ BNisZero(Last.valueBought)
    /\ roiOut = Throw("division-by-zero")
    /\ thrown = "division-by-zero"

\* C7: for a position whose outcomeIndex is outside the prices, getEarnings
\* and getROI fail with an error instead of returning a number, and the
\* failure propagates out of the pipeline.
C7_BadIndexFails ==
    \A i \in DOMAIN data :
        ~IndexInRange(data[i]) =>
            /\ (i = Len(data) /\ earningsOut # NotCalled) => ~earningsOut.ok
            /\ (i = Len(data) /\ roiOut # NotCalled) => ~roiOut.ok
            /\ NothingReturned
            /\ pc = "failed" => thrown = "INVALID_ARGUMENT"

\* both functions were called on the position and the pipeline failed on it
C7_Witness ==
    /\ pc = "failed"
    /\ Len(data) = 2
    /\ ~IndexInRange(Last)
    /\ earningsOut = Throw("INVALID_ARGUMENT")
    /\ roiOut = Throw("INVALID_ARGUMENT")

TruncDiv(a, b) == IF a >= 0 THEN a \div b ELSE -((-a) \div b)

\* the product netQuantity * round(price * 10000) is within TLC's integers
ProductInRange(p) ==
    /\ Len(p.netQuantity.mag) <= 2
    /\ \/ Len(p.netQuantity.mag) <= 1
       \/ p.market.outcomeTokenPrices[p.outcomeIndex + 1] <= 20

\* C8: for every valid position with valueBought # 0, large amounts
\* included, getEarnings returns without error
\* scaledMultiply(netQuantity, price) + valueSold - valueBought, where
\* scaledMultiply(a, b) = (a * round(b * 10000)) div 10000 truncating toward
\* zero, and getROI derives its percentage from the same earnings.
C8_EarningsFormula ==
    LET p == Last
        round == (p.market.outcomeTokenPrices[p.outcomeIndex + 1] + 5) \div 10
        expected == TruncDiv(NumberOf(p.netQuantity) * round, 10000)
                      + NumberOf(p.valueSold) - NumberOf(p.valueBought)
    IN  (data # <<>> /\ IndexInRange(Last) /\ ~BNisZero(Last.valueBought)) =>
            /\ earningsOut # NotCalled =>
                  /\ earningsOut.ok
                  /\ ProductInRange(p) => earningsOut.val = expected
            /\ roiOut # NotCalled =>
                  /\ roiOut.ok
                  /\ ProductInRange(p) =>
                        roiOut.val = TruncDiv(expected * 10000,
                                              NumberOf(p.valueBought))

PlaceOn(list, r) == CHOOSE i \in DOMAIN list : list[i] = r

\* C9: records of equal earnings appear on the leaderboard in the order
\* they have in the list passed to getTopTen, and the comparator answers
\* consistently for such a pair whichever argument comes first.
C9_StableTies ==
    [][pc = "getTopTen" =>
        LET input == aggregatedPositions
            board == topTen'.leaderBoardPositions
        IN  \A i, j \in DOMAIN input :
               (/\ i < j
                /\ input[i].earnings = input[j].earnings
                /\ input[i] \in Range(board)
                /\ input[j] \in Range(board))
               => /\ PlaceOn(board, input[i]) < PlaceOn(board, input[j])
                  /\ comparator(input[i], input[j])
                       = -comparator(input[j], input[i])]_vars

\* C10: each stage leaves the list passed to it as it was.
C10_InputsUnchanged ==
    [][/\ pc = "getAllPositions" => data' = data
       /\ pc = "getAggregatedPositions" => allPositions' = allPositions
       /\ pc = "getTopTen" => aggregatedPositions' = aggregatedPositions]_vars

====
